---- MODULE Spec2Model ----
(***************************************************************************)
(* Model of negroni.go: a stack of middleware handlers (Negroni) whose     *)
(* handlers slice is compiled by build into a linked chain of middleware   *)
(* nodes, and the dispatch of requests through that chain.                 *)
(*                                                                         *)
(* Go values are modelled with their sharing: a slice is a view            *)
(* (array, len, cap) of a backing array in `arrays`, a *middleware is an    *)
(* address into the node heap `mem`, and a middleware value is a record    *)
(* that is copied wherever the Go code copies the struct.                  *)
(***************************************************************************)
EXTENDS Integers, Sequences, FiniteSets, TLC

(***************************************************************************)
(* Bounds of the model.                                                    *)
(***************************************************************************)
\* largest number of handlers a stack is given (through New and Use)
MaxHandlers == 3
\* the spare capacity of the slice the caller hands to New(s...): none, or room
\* for one more element
SpareCaps == {0, 1}
\* number of goroutines that dispatch requests
NumProcs == 2
\* largest number of handlers New gives a stack in the specifications other than
\* Spec, SpecConfig, SpecSolo and SpecClassic
MaxServing == 2

Procs == 1 .. NumProcs
\* the goroutine that configures the stack
Main == CHOOSE p \in Procs : \A q \in Procs : p <= q
\* the goroutine whose dispatch races with a Use of Main
Server == CHOOSE p \in Procs : p # Main

(***************************************************************************)
(* Handler values.  A Handler is an interface value: its dynamic type and  *)
(* its data.  fn names the function a HandlerFunc holds ("wrap" is the     *)
(* closure Wrap returns, "void" the closure of voidMiddleware), inner the  *)
(* http.Handler a Wrap closure captured.                                   *)
(***************************************************************************)
\* the functions of signature (rw, r, next) the callers pass
Funcs == {"A", "B", "D"}
\* the functions of signature (rw, r) the callers pass
PlainFuncs == {"P"}
\* the functions of signature (rw, r, next) that call next once and may panic at
\* any point of their body, before or after that call
PanicFuncs == {"F"}
\* the functions of signature (rw, r, next) that call next once with a request of
\* their own making: next(rw, r.WithContext(ctx))
ContextFuncs == {"R"}

\* the nil interface value
NilHandler == [typ |-> "nil", fn |-> "nil", inner |-> "-"]

\* the nil function value, of either signature
NilFunc == "nilfunc"

\* the nil http.Handler interface value
NilPlain == "nil"

\* HandlerFunc(f): the conversion of a function to a Handler
HandlerFunc(f) == [typ |-> "HandlerFunc", fn |-> f, inner |-> "-"]

\* http.HandlerFunc(f): the conversion of a plain function to a http.Handler
HttpHandlerFunc(f) == f

\* Wrap(handler): a HandlerFunc closure that captured the http.Handler
Wrap(handler) == [typ |-> "HandlerFunc", fn |-> "wrap", inner |-> handler]

\* the handler of the terminal node
voidHandler == HandlerFunc("void")

\* the default handlers Classic installs.  Their types are defined outside
\* negroni.go; all that is modelled of them is that they are Handlers, that
\* recovery and the logger wrap the rest of the chain in their call of next, and
\* that the file server passes on a request it finds no file for.
NewRecovery == [typ |-> "Recovery", fn |-> "recovery", inner |-> "-"]

NewLogger == [typ |-> "Logger", fn |-> "logger", inner |-> "-"]

NewStatic(dir) == [typ |-> "Static", fn |-> "static", inner |-> dir]

\* the Handler values the callers pass to New and Use
UserHandlers == {HandlerFunc(f) : f \in Funcs} \cup {Wrap(HttpHandlerFunc(f)) : f \in PlainFuncs}

\* a Handler value whose ServeHTTP cannot run: the nil interface, a HandlerFunc
\* that holds the nil function (h(rw, r, next) calls nil), and a closure of Wrap
\* around the nil http.Handler or around http.HandlerFunc(nil)
\* (handler.ServeHTTP(rw, r) dereferences or calls nil)
Unusable(h) ==
    \/ h = NilHandler
    \/ h.fn = NilFunc
    \/ h.fn = "wrap" /\ h.inner \in {NilPlain, NilFunc}

\* what the callers' functions write to the response, before anything else
Writes(f) ==
    CASE f = "A" -> <<"1">>
      [] f = "B" -> <<"2">>
      [] f = "P" -> <<"3">>
      [] f = "D" -> <<"4">>
      [] OTHER -> <<>>

\* how many times the callers' functions call next, after writing
Calls(f) ==
    CASE f = "A" -> 1
      [] f = "B" -> 0
      [] f = "D" -> 2
      [] f \in PanicFuncs -> 1
      [] f \in ContextFuncs -> 1
      [] f \in {"recovery", "logger", "static"} -> 1
      [] OTHER -> 0

\* HandlerFunc.ServeHTTP calls h(rw, r, next): what the call writes
HandlerWrites(h) == IF h.fn = "wrap" THEN Writes(h.inner) ELSE Writes(h.fn)

\* a Wrap whose closure forgets next(rw, r)
HandlerCallsWrapStops(h) == IF h.fn = "wrap" THEN 0 ELSE Calls(h.fn)

\* HandlerFunc.ServeHTTP calls h(rw, r, next): how often the body calls next.
\* The closure of Wrap calls next once, after handler.ServeHTTP returned; the
\* closure of voidMiddleware has an empty body.
HandlerCalls(h) == IF h.fn = "wrap" THEN 1 ELSE Calls(h.fn)

\* the http.ResponseWriter and the *http.Request the server passes to
\* n.ServeHTTP.  Writers and requests are sequences of names: the object itself,
\* preceded by the names of what was wrapped around it.
RawWriter == <<"rw">>

Request == <<"r">>

\* NewResponseWriter(rw): the status and size recording writer around rw; the
\* type is defined outside negroni.go
NewResponseWriter(rw) == <<"ResponseWriter">> \o rw

\* the arguments the body of h passes to next when it received rw and r.  The
\* closure of Wrap calls next(rw, r).
PassedOn(h, rw, r) ==
    [rw |-> rw, r |-> IF h.fn \in ContextFuncs THEN <<"ctx">> \o r ELSE r]

(***************************************************************************)
(* State.                                                                  *)
(***************************************************************************)
VARIABLES
    arrays,      \* backing arrays of the slices: a sequence of sequences of Handler
    mem,         \* heap of middleware nodes, by address 1..Len(mem)
    handlers,    \* n.handlers: a slice [arr, len, cap]; arr = 0 is the nil slice
    middleware,  \* n.middleware: a middleware value [handler, next]
    captured,    \* a copy of n.middleware a caller took, or NoChain
    capturedFor, \* the handlers the stack had been given when captured was taken
    snap,        \* the slice a caller got from Handlers(), or NoSlice
    given,       \* history: the handlers New was given, then those of every successful Use
    call,        \* history: the last configuration call, its argument and its outcome
    disp,        \* the dispatches, by goroutine
    use,         \* the Use call that runs concurrently with dispatches, word by word
    passed,      \* the slice hs of New(hs...) a caller keeps and uses again, or NoSlice
    twin         \* a second stack the caller made of the same slice, or NoStack

vars == <<arrays, mem, handlers, middleware, captured, capturedFor, snap, given, call,
          disp, use, passed, twin>>

callerVars == <<passed, twin>>

stackVars == <<arrays, mem, handlers, middleware>>

NoChain == [handler |-> NilHandler, next |-> -1]
NoSlice == [arr |-> -1, len |-> 0, cap |-> 0]
NilSlice == [arr |-> 0, len |-> 0, cap |-> 0]
NoStack == [handlers |-> NoSlice, middleware |-> NoChain, given |-> <<>>]

\* the zero value of middleware: nil handler, nil next
ZeroMiddleware == [handler |-> NilHandler, next |-> 0]

(***************************************************************************)
(* Slices.                                                                 *)
(***************************************************************************)
\* the elements s[0..len-1] of a slice, read through its backing array
Elems(arrs, s) == IF s.arr <= 0 THEN <<>> ELSE SubSeq(arrs[s.arr], 1, s.len)

\* the capacity the runtime gives a slice that append has to grow by one element
GrowCap(c) == IF c = 0 THEN 1 ELSE 2 * c

\* an append that grows the slice without copying the elements it holds
appendLosesElems(arrs, s, h) ==
    IF s.len < s.cap
    THEN [arrays |-> [arrs EXCEPT ![s.arr][s.len + 1] = h],
          slice  |-> [s EXCEPT !.len = s.len + 1]]
    ELSE LET c == GrowCap(s.cap)
             a == [i \in 1 .. c |-> IF i = s.len + 1 THEN h ELSE NilHandler]
         IN [arrays |-> Append(arrs, a),
             slice  |-> [arr |-> Len(arrs) + 1, len |-> s.len + 1, cap |-> c]]

\* append(s, h): [arrays, slice] after the call.  Within capacity the element is
\* stored in the backing array s shares; otherwise the elements are copied to a
\* new array whose spare capacity is zeroed.
append(arrs, s, h) ==
    IF s.len < s.cap
    THEN [arrays |-> [arrs EXCEPT ![s.arr][s.len + 1] = h],
          slice  |-> [s EXCEPT !.len = s.len + 1]]
    ELSE LET c == GrowCap(s.cap)
             a == [i \in 1 .. c |->
                     IF i <= s.len THEN arrs[s.arr][i]
                     ELSE IF i = s.len + 1 THEN h ELSE NilHandler]
         IN [arrays |-> Append(arrs, a),
             slice  |-> [arr |-> Len(arrs) + 1, len |-> s.len + 1, cap |-> c]]

(***************************************************************************)
(* build and voidMiddleware.  Both return a middleware value and allocate  *)
(* the nodes their pointers refer to: [m, mem] is the value and the heap.   *)
(***************************************************************************)
\* a voidMiddleware whose next is left nil
voidMiddlewareNilNext(heap) ==
    [m |-> [handler |-> voidHandler, next |-> 0], mem |-> heap]

\* voidMiddleware(): the no-op handler, next = &middleware{}
voidMiddleware(heap) ==
    [m   |-> [handler |-> voidHandler, next |-> Len(heap) + 1],
     mem |-> Append(heap, ZeroMiddleware)]

RECURSIVE build(_, _)
\* a build whose test for "more than one handler" is off by one: of two handlers
\* the second is left out of the chain
buildDropsSecond(hs, heap) ==
    IF Len(hs) = 0
    THEN voidMiddleware(heap)
    ELSE LET nxt == IF Len(hs) > 2 THEN build(Tail(hs), heap) ELSE voidMiddleware(heap)
         IN [m   |-> [handler |-> hs[1], next |-> Len(nxt.mem) + 1],
             mem |-> Append(nxt.mem, nxt.m)]

RECURSIVE buildFresh(_, _)
\* the chain of hs, as build makes it
buildFresh(hs, heap) ==
    IF Len(hs) = 0
    THEN voidMiddleware(heap)
    ELSE LET nxt == IF Len(hs) > 1 THEN buildFresh(Tail(hs), heap)
                    ELSE voidMiddleware(heap)
         IN [m   |-> [handler |-> hs[1], next |-> Len(nxt.mem) + 1],
             mem |-> Append(nxt.mem, nxt.m)]

\* a build that also patches the chains built before: their terminal nodes are
\* overwritten in place with the handler that was added last
buildPatchesOld(hs, heap) ==
    LET b == buildFresh(hs, heap)
    IN [m   |-> b.m,
        mem |-> [a \in DOMAIN b.mem |->
                   IF a <= Len(heap) /\ Len(hs) > 0 /\ b.mem[a].handler = voidHandler
                   THEN [b.mem[a] EXCEPT !.handler = hs[Len(hs)]]
                   ELSE b.mem[a]]]

\* a build that closes the chain: behind the last handler comes the first again,
\* in place of the terminal node
buildCyclic(hs, heap) ==
    LET b == buildFresh(hs, heap)
    IN [m   |-> b.m,
        mem |-> [a \in DOMAIN b.mem |->
                   IF a > Len(heap) /\ Len(hs) > 0 /\ b.mem[a].handler = voidHandler
                   THEN [b.m EXCEPT !.next = IF Len(hs) = 1 THEN a ELSE @]
                   ELSE b.mem[a]]]

\* build(handlers): the local `next` escapes to the heap; the result points to it
build(hs, heap) ==
    IF Len(hs) = 0
    THEN voidMiddleware(heap)
    ELSE LET nxt == IF Len(hs) > 1 THEN build(Tail(hs), heap) ELSE voidMiddleware(heap)
         IN [m   |-> [handler |-> hs[1], next |-> Len(nxt.mem) + 1],
             mem |-> Append(nxt.mem, nxt.m)]

(***************************************************************************)
(* Construction.                                                           *)
(***************************************************************************)
\* New(handlers...): the stack keeps the caller's slice and builds the chain
New(arrs, s, heap) ==
    LET b == build(Elems(arrs, s), heap)
    IN [handlers |-> s, middleware |-> b.m, mem |-> b.mem]

\* the sequences of at most n elements of S
SeqsUpTo(S, n) == UNION {[1 .. k -> S] : k \in 0 .. n}

\* the words of the struct n.middleware.  Every handler of the model is a
\* HandlerFunc, so the type word of the interface n.middleware.handler never
\* changes and its data word stands for the interface.
Words == {"handler", "next"}

\* a goroutine that dispatches nothing.  src, cfg, seen and vers are history: where
\* the chain head was taken from, the handlers that chain was built from, the
\* handlers the stack had been given when the dispatch began, and the states of
\* n.middleware the reads of its words met; recv is the arguments every
\* invocation received.
Idle == [pc |-> "idle", src |-> "none", cfg |-> <<>>, seen |-> <<>>,
         stack |-> <<>>, log |-> <<>>, body |-> <<>>, recv |-> <<>>,
         todo |-> {}, head |-> [handler |-> NilHandler, next |-> 0], vers |-> <<>>]

NoUse == [pc |-> "idle", new |-> [handler |-> NilHandler, next |-> 0], todo |-> {},
          old |-> <<>>]

\* the state after n := New(hs...): the caller passes no argument (a nil slice),
\* the handlers themselves (spare = 0), or a slice of its own that may have spare
\* capacity; with twins, the caller keeps the slice and goes on with
\* n2 := New(hs...)
CreatedWith(hs, spare, twins) ==
        LET a    == hs \o [i \in 1 .. spare |-> NilHandler]
            arrs == IF Len(a) = 0 THEN <<>> ELSE <<a>>
            s    == IF Len(a) = 0 THEN NilSlice
                    ELSE [arr |-> 1, len |-> Len(hs), cap |-> Len(a)]
            n    == New(arrs, s, <<>>)
            n2   == New(arrs, s, n.mem)
        IN /\ arrays = arrs
           /\ handlers = n.handlers
           /\ middleware = n.middleware
           /\ mem = IF twins THEN n2.mem ELSE n.mem
           /\ passed = IF twins THEN s ELSE NoSlice
           /\ twin = IF twins
                     THEN [handlers |-> n2.handlers, middleware |-> n2.middleware,
                           given |-> hs]
                     ELSE NoStack
           /\ captured = NoChain
           /\ capturedFor = <<>>
           /\ snap = NoSlice
           /\ given = hs
           /\ call = [op |-> "New", arg |-> NilHandler, result |-> "ok"]
           /\ disp = [p \in Procs |-> Idle]
           /\ use = NoUse

\* the state after n := New(hs...) with at most most handlers out of S
CreatedOf(S, most) ==
    \E hs \in SeqsUpTo(S, most), spare \in SpareCaps : CreatedWith(hs, spare, FALSE)

\* a Classic that installs the logger in front of recovery
ClassicLoggerFirst ==
    CreatedWith(<<NewLogger, NewRecovery, NewStatic("public")>>, 0, FALSE)

\* n := Classic(): New(NewRecovery(), NewLogger(), NewStatic(http.Dir("public")))
Classic == CreatedWith(<<NewRecovery, NewLogger, NewStatic("public")>>, 0, FALSE)

\* the state after n := New(hs...) with handlers that return
Created(most) == CreatedOf(UserHandlers, most)

Init == Created(MaxHandlers)

(***************************************************************************)
(* Configuration.                                                          *)
(***************************************************************************)
\* a Use without the nil test
UseRejectsNothing(handler) == FALSE

\* the test that makes Use panic
UseRejects(handler) == handler = NilHandler

\* a Use that appends the handler and leaves the chain as it was
UseSkipsRebuild(handler) ==
    IF UseRejects(handler)
    THEN /\ call' = [op |-> "Use", arg |-> handler, result |-> "panic"]
         /\ UNCHANGED <<arrays, mem, handlers, middleware, captured, capturedFor,
                        snap, given, disp, use, callerVars>>
    ELSE /\ handlers.len < MaxHandlers
         /\ LET a == append(arrays, handlers, handler)
            IN /\ arrays' = a.arrays
               /\ handlers' = a.slice
         /\ given' = Append(given, handler)
         /\ call' = [op |-> "Use", arg |-> handler, result |-> "ok"]
         /\ UNCHANGED <<mem, middleware, captured, capturedFor, snap, disp, use, callerVars>>

\* n.Use(handler)
Use(handler) ==
    IF UseRejects(handler)
    THEN /\ call' = [op |-> "Use", arg |-> handler, result |-> "panic"]
         /\ UNCHANGED <<arrays, mem, handlers, middleware, captured, capturedFor,
                        snap, given, disp, use, callerVars>>
    ELSE /\ handlers.len < MaxHandlers
         /\ LET a == append(arrays, handlers, handler)
                b == build(Elems(a.arrays, a.slice), mem)
            IN /\ arrays' = a.arrays
               /\ handlers' = a.slice
               /\ middleware' = b.m
               /\ mem' = b.mem
         /\ given' = Append(given, handler)
         /\ call' = [op |-> "Use", arg |-> handler, result |-> "ok"]
         /\ UNCHANGED <<captured, capturedFor, snap, disp, use, callerVars>>

\* n.UseFunc(handlerFunc)
UseFunc(handlerFunc) == Use(HandlerFunc(handlerFunc))

\* n.UseHandler(handler)
UseHandler(handler) == Use(Wrap(handler))

\* n.UseHandlerFunc(handlerFunc)
UseHandlerFunc(handlerFunc) == UseHandler(HttpHandlerFunc(handlerFunc))

\* n.Handlers(): the caller gets the slice header of n.handlers
Handlers ==
    /\ snap # handlers
    /\ snap' = handlers
    /\ UNCHANGED <<arrays, mem, handlers, middleware, captured, capturedFor, given,
                   call, disp, use, callerVars>>

\* a caller inside the package copies the chain head: old := n.middleware
Capture ==
    /\ captured = NoChain
    /\ captured' = middleware
    /\ capturedFor' = given
    /\ UNCHANGED <<arrays, mem, handlers, middleware, snap, given, call, disp, use, callerVars>>

(***************************************************************************)
(* Dispatch.  A dispatch is a stack of handler activations; an activation  *)
(* holds the handler, the continuation it was passed (the method value     *)
(* m.next.ServeHTTP, bound to a copy of *m.next) and the number of calls   *)
(* of next its body still makes.                                           *)
(***************************************************************************)
\* an entry of a dispatch's log: handler h, the pos-th activation from the bottom
\* of the call stack, was entered ("enter"), ran the http.Handler it wraps to its
\* end ("plain"), or returned ("exit")
Event(e, h, pos) == [ev |-> e, h |-> h, pos |-> pos]

\* a continuation bound one node too far
NextOfSkips(m, heap) ==
    IF heap[m.next].next = 0 THEN heap[m.next] ELSE heap[heap[m.next].next]

\* the node m.next.ServeHTTP is bound to
NextOf(m, heap) == heap[m.next]

\* middleware.ServeHTTP(rw, r) on the value m:
\* m.handler.ServeHTTP(rw, r, m.next.ServeHTTP).  A nil m.next or a handler that
\* is nil or holds nil makes the call panic before any code of a caller runs.
Invoke(d, m, heap, rw, r) ==
    IF m.next = 0 \/ Unusable(m.handler)
    THEN [d EXCEPT !.pc = "panic", !.stack = <<>>]
    ELSE [d EXCEPT
            !.stack = Append(@, [h    |-> m.handler,
                                 cont |-> NextOf(m, heap),
                                 left |-> HandlerCalls(m.handler),
                                 rw   |-> rw,
                                 r    |-> r]),
            !.recv  = Append(@, [pos |-> Len(d.stack) + 1, rw |-> rw, r |-> r]),
            !.log   = IF m.handler.fn = "wrap"
                      THEN @ \o <<Event("enter", m.handler, Len(d.stack) + 1),
                                  Event("plain", m.handler, Len(d.stack) + 1)>>
                      ELSE Append(@, Event("enter", m.handler, Len(d.stack) + 1)),
            !.body  = @ \o HandlerWrites(m.handler)]

Running(p) == disp[p].pc = "run"

Busy(p) == disp[p].pc \in {"read", "run"}

\* a dispatch that starts with m.ServeHTTP(rw, r) on the value m, built from the
\* handlers cfg
Begin(p, m, src, cfg, rw, r) ==
    /\ ~Busy(p)
    /\ disp' = [disp EXCEPT ![p] =
                  Invoke([Idle EXCEPT !.pc = "run", !.src = src, !.cfg = cfg,
                                      !.seen = given], m, mem, rw, r)]
    /\ UNCHANGED <<arrays, mem, handlers, middleware, captured, capturedFor, snap,
                   given, call, use, callerVars>>

\* a ServeHTTP that advances the head of the stack's chain as it serves
ServeHTTPConsumes(p) ==
    /\ ~Busy(p)
    /\ disp' = [disp EXCEPT ![p] =
                  Invoke([Idle EXCEPT !.pc = "run", !.src = "stack", !.cfg = given,
                                      !.seen = given], middleware, mem,
                         NewResponseWriter(RawWriter), Request)]
    /\ middleware' = IF mem[middleware.next].next = 0 THEN middleware
                     ELSE mem[middleware.next]
    /\ UNCHANGED <<arrays, mem, handlers, captured, capturedFor, snap, given, call, use, callerVars>>

\* n.ServeHTTP(rw, r): n.middleware.ServeHTTP(NewResponseWriter(rw), r), the
\* value receiver copies n.middleware
ServeHTTP(p) == Begin(p, middleware, "stack", given, NewResponseWriter(RawWriter), Request)

\* old.ServeHTTP(rw, r) on the captured copy of the chain head
ServeCaptured(p) ==
    /\ captured # NoChain
    /\ Begin(p, captured, "captured", capturedFor, RawWriter, Request)

\* the terminal node of the chain that begins with the value m: the node
\* voidMiddleware made
RECURSIVE Terminal(_, _)
Terminal(m, heap) == IF m.handler = voidHandler THEN m ELSE Terminal(heap[m.next], heap)

\* a caller inside the package calls the continuation the terminal node passes to
\* its handler, m.next.ServeHTTP(rw, r), which is bound to the node &middleware{}
ServePastTerminal(p) ==
    Begin(p, NextOf(Terminal(middleware, mem), mem), "past", given, RawWriter, Request)

Top(p) == disp[p].stack[Len(disp[p].stack)]

\* a continuation that works once: after the first call of next the handler makes
\* no further one
CallNextOnceOnly(p) ==
    /\ Running(p)
    /\ Top(p).left > 0
    /\ LET k == Len(disp[p].stack)
           d == [disp[p] EXCEPT !.stack[k].left = 0]
           a == PassedOn(Top(p).h, Top(p).rw, Top(p).r)
       IN disp' = [disp EXCEPT ![p] = Invoke(d, Top(p).cont, mem, a.rw, a.r)]
    /\ UNCHANGED <<arrays, mem, handlers, middleware, captured, capturedFor, snap,
                   given, call, use, callerVars>>

\* the running handler calls next(rw, r)
CallNext(p) ==
    /\ Running(p)
    /\ Top(p).left > 0
    /\ LET k == Len(disp[p].stack)
           d == [disp[p] EXCEPT !.stack[k].left = @ - 1]
           a == PassedOn(Top(p).h, Top(p).rw, Top(p).r)
       IN disp' = [disp EXCEPT ![p] = Invoke(d, Top(p).cont, mem, a.rw, a.r)]
    /\ UNCHANGED <<arrays, mem, handlers, middleware, captured, capturedFor, snap,
                   given, call, use, callerVars>>

\* a return that does not wait: the caller of the running handler returns while
\* the handler it called through next is still running
ReturnEarly(p) ==
    /\ Running(p)
    /\ Top(p).left = 0
    /\ LET k == Len(disp[p].stack)
           c == IF k > 1 THEN k - 1 ELSE k
       IN disp' = [disp EXCEPT
                     ![p].stack = SubSeq(@, 1, c - 1) \o SubSeq(@, c + 1, k),
                     ![p].log   = Append(@, Event("exit", disp[p].stack[c].h, c)),
                     ![p].pc    = IF k = 1 THEN "done" ELSE "run"]
    /\ UNCHANGED <<arrays, mem, handlers, middleware, captured, capturedFor, snap,
                   given, call, use, callerVars>>

\* the running handler returns
Return(p) ==
    /\ Running(p)
    /\ Top(p).left = 0
    /\ LET k == Len(disp[p].stack)
       IN disp' = [disp EXCEPT
                     ![p].stack = SubSeq(@, 1, k - 1),
                     ![p].log   = Append(@, Event("exit", Top(p).h, k)),
                     ![p].pc    = IF k = 1 THEN "done" ELSE "run"]
    /\ UNCHANGED <<arrays, mem, handlers, middleware, captured, capturedFor, snap,
                   given, call, use, callerVars>>

\* a panic that is recovered where it is raised: only the activation of the
\* handler that panicked ends, and its caller runs on
PanicRecovered(p) ==
    /\ Running(p)
    /\ Top(p).h.fn \in PanicFuncs
    /\ LET k == Len(disp[p].stack)
       IN disp' = [disp EXCEPT
                     ![p].stack = SubSeq(@, 1, k - 1),
                     ![p].log   = Append(@, Event("panic", Top(p).h, k)),
                     ![p].pc    = IF k = 1 THEN "done" ELSE "run"]
    /\ UNCHANGED <<arrays, mem, handlers, middleware, captured, capturedFor, snap,
                   given, call, use, callerVars>>

\* the running handler panics.  Neither middleware.ServeHTTP nor Negroni.ServeHTTP
\* recovers: every activation of the dispatch is unwound and the panic reaches the
\* caller of n.ServeHTTP.
Panic(p) ==
    /\ Running(p)
    /\ Top(p).h.fn \in PanicFuncs
    /\ disp' = [disp EXCEPT
                  ![p].stack = <<>>,
                  ![p].log   = Append(@, Event("panic", Top(p).h, Len(disp[p].stack))),
                  ![p].pc    = "panic"]
    /\ UNCHANGED <<arrays, mem, handlers, middleware, captured, capturedFor, snap,
                   given, call, use, callerVars>>

(***************************************************************************)
(* Spec: one goroutine configures the stack and dispatches requests; a     *)
(* configuration call may come while a dispatch is under way (a handler    *)
(* that calls n.Use).                                                      *)
(***************************************************************************)
Next ==
    \/ \E h \in UserHandlers \cup {NilHandler} : Use(h)
    \/ \E f \in Funcs : UseFunc(f)
    \/ \E f \in PlainFuncs : UseHandler(HttpHandlerFunc(f))
    \/ \E f \in PlainFuncs : UseHandlerFunc(f)
    \/ Capture
    \/ ServeHTTP(Main)
    \/ ServeCaptured(Main)
    \/ CallNext(Main)
    \/ Return(Main)

Spec == Init /\ [][Next]_vars

(***************************************************************************)
(* SpecConfig: the configuration calls and Handlers() alone.               *)
(***************************************************************************)
NextConfig ==
    \/ \E h \in UserHandlers \cup {NilHandler} : Use(h)
    \/ \E f \in Funcs : UseFunc(f)
    \/ \E f \in PlainFuncs : UseHandler(HttpHandlerFunc(f))
    \/ \E f \in PlainFuncs : UseHandlerFunc(f)
    \/ Handlers

SpecConfig == Init /\ [][NextConfig]_vars

(***************************************************************************)
(* SpecServe: the stack is configured and serves; the goroutines dispatch  *)
(* requests through it concurrently, nothing calls Use.                    *)
(***************************************************************************)
NextServe ==
    \E p \in Procs :
        \/ ServeHTTP(p)
        \/ CallNext(p)
        \/ Return(p)

InitServe == Created(MaxServing)

SpecServe == InitServe /\ [][NextServe]_vars

(***************************************************************************)
(* SpecSolo: the stack is configured and one goroutine dispatches request  *)
(* after request through it.                                               *)
(***************************************************************************)
NextSolo ==
    \/ ServeHTTP(Main)
    \/ CallNext(Main)
    \/ Return(Main)

SpecSolo == Init /\ [][NextSolo]_vars

\* SpecSolo with handlers that return: the goroutine inside a dispatch goes on
\* running, so the call of next or the return its handler is about to make happens
SpecSoloFair == SpecSolo /\ WF_vars(CallNext(Main) \/ Return(Main))

(***************************************************************************)
(* SpecRace: one Use runs in the configuring goroutine while the other     *)
(* goroutines dispatch.  Nothing synchronises them: Use stores             *)
(* n.middleware word by word in any order, and the value receiver of       *)
(* n.middleware.ServeHTTP copies it word by word in any order.             *)
(***************************************************************************)
\* the handlers of the chain n.middleware denotes while all its words belong to one
\* chain ("whole"), or the mark that a Use has stored only some of them ("part")
ChainVersion ==
    IF use.pc \in {"idle", "done"} THEN [state |-> "whole", of |-> given]
    ELSE IF use.todo = Words THEN [state |-> "whole", of |-> use.old]
    ELSE [state |-> "part", of |-> use.old]

\* n.Use(handler) up to the store to n.middleware: the nil test, the append, build
UseBegin(handler) ==
    /\ use.pc = "idle"
    /\ ~UseRejects(handler)
    /\ handlers.len < MaxHandlers
    /\ LET a == append(arrays, handlers, handler)
           b == build(Elems(a.arrays, a.slice), mem)
       IN /\ arrays' = a.arrays
          /\ handlers' = a.slice
          /\ mem' = b.mem
          /\ use' = [pc |-> "write", new |-> b.m, todo |-> Words, old |-> given]
    /\ given' = Append(given, handler)
    /\ UNCHANGED <<middleware, captured, capturedFor, snap, call, disp, callerVars>>

\* n.middleware = build(n.handlers): the store of one word; Use returns after the last
UseWrite(w) ==
    /\ use.pc = "write"
    /\ w \in use.todo
    /\ middleware' = [middleware EXCEPT ![w] = use.new[w]]
    /\ IF use.todo = {w}
       THEN /\ use' = [use EXCEPT !.pc = "done", !.todo = {}]
            /\ call' = [op |-> "Use", arg |-> given[Len(given)], result |-> "ok"]
       ELSE /\ use' = [use EXCEPT !.todo = @ \ {w}]
            /\ UNCHANGED call
    /\ UNCHANGED <<arrays, mem, handlers, captured, capturedFor, snap, given, disp, callerVars>>

\* n.ServeHTTP(rw, r) is called: the copy of n.middleware for the receiver begins
ServeBegin(p) ==
    /\ ~Busy(p)
    /\ disp' = [disp EXCEPT ![p] =
                  [Idle EXCEPT !.pc = "read", !.todo = Words, !.seen = ChainVersion.of]]
    /\ UNCHANGED <<arrays, mem, handlers, middleware, captured, capturedFor, snap,
                   given, call, use, callerVars>>

\* the copy reads one word of n.middleware; after the last, middleware.ServeHTTP
\* runs on the copy.  The dispatch counts as one of the stack's chain ("stack") if
\* all the words were read from one whole chain, and as torn otherwise.
ServeRead(p, w) ==
    /\ disp[p].pc = "read"
    /\ w \in disp[p].todo
    /\ LET d    == [disp[p] EXCEPT !.todo = @ \ {w},
                                   !.head[w] = middleware[w],
                                   !.vers = Append(@, ChainVersion)]
           same == \A i \in DOMAIN d.vers : d.vers[i] = d.vers[1] /\ d.vers[i].state = "whole"
       IN disp' = [disp EXCEPT ![p] =
                     IF d.todo # {} THEN d
                     ELSE Invoke([d EXCEPT !.pc = "run",
                                           !.src = IF same THEN "stack" ELSE "torn",
                                           !.cfg = IF same THEN d.vers[1].of ELSE <<>>],
                                 d.head, mem, NewResponseWriter(RawWriter), Request)]
    /\ UNCHANGED <<arrays, mem, handlers, middleware, captured, capturedFor, snap,
                   given, call, use, callerVars>>

NextRace ==
    \/ \E h \in UserHandlers : UseBegin(h)
    \/ \E w \in Words : UseWrite(w)
    \/ ServeBegin(Server)
    \/ \E w \in Words : ServeRead(Server, w)
    \/ CallNext(Server)
    \/ Return(Server)

SpecRace == InitServe /\ [][NextRace]_vars

(***************************************************************************)
(* SpecAlias: one goroutine configures the stack, dispatches, asks for     *)
(* Handlers() and stores to the elements of the slice it got.              *)
(***************************************************************************)
\* the handler the caller stores to the slice it got from Handlers()
Stored == HandlerFunc("B")

\* hs := n.Handlers() earlier; now hs[i-1] = h
Overwrite(i, h) ==
    /\ snap # NoSlice
    /\ i \in 1 .. snap.len
    /\ arrays[snap.arr][i] # h
    /\ arrays' = [arrays EXCEPT ![snap.arr][i] = h]
    /\ UNCHANGED <<mem, handlers, middleware, captured, capturedFor, snap, given, call,
                   disp, use, callerVars>>

NextAlias ==
    \/ \E h \in UserHandlers : Use(h)
    \/ Handlers
    \/ \E i \in 1 .. MaxHandlers : Overwrite(i, Stored)
    \/ ServeHTTP(Main)
    \/ CallNext(Main)
    \/ Return(Main)

SpecAlias == InitServe /\ [][NextAlias]_vars

(***************************************************************************)
(* SpecPanic: the goroutines dispatch concurrently through a stack some of *)
(* whose handlers may panic; no recovery middleware is installed.          *)
(***************************************************************************)
\* the handlers New is given in SpecPanic
PanicHandlers == {HandlerFunc(f) : f \in {"A", "B"} \cup PanicFuncs}

InitPanic == CreatedOf(PanicHandlers, MaxServing)

NextPanic ==
    \E p \in Procs :
        \/ ServeHTTP(p)
        \/ CallNext(p)
        \/ Return(p)
        \/ Panic(p)

SpecPanic == InitPanic /\ [][NextPanic]_vars

(***************************************************************************)
(* SpecClassic: the stack Classic() returns serves requests concurrently   *)
(* and is asked for its handlers.                                          *)
(***************************************************************************)
NextClassic ==
    \/ Handlers
    \/ \E p \in Procs :
          \/ ServeHTTP(p)
          \/ CallNext(p)
          \/ Return(p)

SpecClassic == Classic /\ [][NextClassic]_vars

(***************************************************************************)
(* SpecPast: one goroutine dispatches through the stack and also calls the *)
(* continuation of the terminal node.                                      *)
(***************************************************************************)
NextPast ==
    \/ ServeHTTP(Main)
    \/ ServePastTerminal(Main)
    \/ CallNext(Main)
    \/ Return(Main)

SpecPast == InitServe /\ [][NextPast]_vars

(***************************************************************************)
(* SpecArgs: the goroutines dispatch through a stack some of whose         *)
(* handlers pass a request of their own to next.                           *)
(***************************************************************************)
\* the handlers New is given in SpecArgs
ArgHandlers ==
    {HandlerFunc(f) : f \in {"A"} \cup ContextFuncs} \cup {Wrap(HttpHandlerFunc(f)) : f \in PlainFuncs}

InitArgs == CreatedOf(ArgHandlers, MaxServing)

SpecArgs == InitArgs /\ [][NextServe]_vars

(***************************************************************************)
(* SpecNil: one goroutine configures the stack with nil values of every    *)
(* kind the signatures admit, and dispatches.                              *)
(***************************************************************************)
\* the handlers New is given in SpecNil
NilHandlers == {HandlerFunc("A"), NilHandler}

InitNil == CreatedOf(NilHandlers, MaxServing)

NextNil ==
    \/ \E h \in NilHandlers : Use(h)
    \/ UseFunc(NilFunc)
    \/ UseHandler(NilPlain)
    \/ UseHandlerFunc(NilFunc)
    \/ ServeHTTP(Main)
    \/ CallNext(Main)
    \/ Return(Main)

SpecNil == InitNil /\ [][NextNil]_vars

(***************************************************************************)
(* SpecShared: the caller makes two stacks of one slice of its own,        *)
(* n := New(hs...) and n2 := New(hs...), goes on configuring both, stores  *)
(* to the elements of hs, and dispatches through n.                        *)
(***************************************************************************)
\* the handlers the caller uses in SpecShared
SharedHandlers == {HandlerFunc("A"), HandlerFunc("B")}

InitShared ==
    \E hs \in SeqsUpTo(SharedHandlers, MaxServing), spare \in SpareCaps :
        CreatedWith(hs, spare, TRUE)

\* n2.Use(handler)
UseTwin(handler) ==
    /\ twin # NoStack
    /\ ~UseRejects(handler)
    /\ twin.handlers.len < MaxHandlers
    /\ LET a == append(arrays, twin.handlers, handler)
           b == build(Elems(a.arrays, a.slice), mem)
       IN /\ arrays' = a.arrays
          /\ mem' = b.mem
          /\ twin' = [handlers |-> a.slice, middleware |-> b.m,
                      given |-> Append(twin.given, handler)]
    /\ UNCHANGED <<handlers, middleware, captured, capturedFor, snap, given, call,
                   disp, use, passed>>

\* the caller stores to its slice after the calls of New: hs[i-1] = h
Store(i, h) ==
    /\ i \in 1 .. passed.len
    /\ arrays[passed.arr][i] # h
    /\ arrays' = [arrays EXCEPT ![passed.arr][i] = h]
    /\ UNCHANGED <<mem, handlers, middleware, captured, capturedFor, snap, given, call,
                   disp, use, passed, twin>>

NextShared ==
    \/ \E h \in SharedHandlers : Use(h)
    \/ \E h \in SharedHandlers : UseTwin(h)
    \/ \E i \in 1 .. MaxHandlers : Store(i, Stored)
    \/ ServeHTTP(Main)
    \/ CallNext(Main)
    \/ Return(Main)

SpecShared == InitShared /\ [][NextShared]_vars

(***************************************************************************)
(* What a dispatch did, read from its log.                                 *)
(***************************************************************************)
IsUserEnter(e) == e.ev = "enter" /\ e.h # voidHandler

IsPlain(e) == e.ev = "plain"

\* the handlers of the callers a dispatch invoked, in the order of invocation
Entered(d) == LET es == SelectSeq(d.log, IsUserEnter) IN [i \in DOMAIN es |-> es[i].h]

\* the plain http.Handlers a dispatch ran, in the order they ran
PlainRuns(d) == LET es == SelectSeq(d.log, IsPlain) IN [i \in DOMAIN es |-> es[i].h.inner]

\* the log indices at which the handler at chain position pos was invoked
EntersAt(d, pos) == {i \in DOMAIN d.log : d.log[i].ev = "enter" /\ d.log[i].pos = pos}

\* every invocation a dispatch made is of the handler cfg holds at that position,
\* or of the terminal no-op handler right behind the last position
FollowsConfig(d) ==
    \A i \in DOMAIN d.log :
        d.log[i].ev = "enter" =>
            IF d.log[i].pos <= Len(d.cfg)
            THEN d.log[i].h = d.cfg[d.log[i].pos]
            ELSE d.log[i].pos = Len(d.cfg) + 1 /\ d.log[i].h = voidHandler

AllCallNextOnce(hs) == \A i \in DOMAIN hs : HandlerCalls(hs[i]) = 1

IsPrefix(s, t) == Len(s) <= Len(t) /\ SubSeq(t, 1, Len(s)) = s

(***************************************************************************)
(* Claims.                                                                 *)
(***************************************************************************)

\* C1: a ServeHTTP dispatch through a stack of handlers h0..hn-1 (n > 0) that all
\* call next exactly once invokes h0, ..., hn-1 in that order, each exactly once:
\* while it runs the invoked handlers are a prefix of the configuration, and when
\* it is done they are the configuration.
C1_ConfigurationOrder ==
    \A p \in Procs :
        ( /\ disp[p].src = "stack"
          /\ disp[p].cfg # <<>>
          /\ AllCallNextOnce(disp[p].cfg) )
        => /\ disp[p].pc # "panic"
           /\ IsPrefix(Entered(disp[p]), disp[p].cfg)
           /\ disp[p].pc = "done" => Entered(disp[p]) = disp[p].cfg

C1_Witness ==
    \E p \in Procs :
        /\ disp[p].pc = "done"
        /\ disp[p].src = "stack"
        /\ Len(disp[p].cfg) = MaxHandlers
        /\ AllCallNextOnce(disp[p].cfg)
        /\ Entered(disp[p]) = disp[p].cfg

\* the handler at position k was invoked in d and its body never calls next
StopsAt(d, k) ==
    /\ k \in DOMAIN d.cfg
    /\ HandlerCalls(d.cfg[k]) = 0
    /\ EntersAt(d, k) # {}

\* C2 as stated: in any dispatch (whose k-th activation is of the handler at
\* position k) in which the handler at position k is invoked and does not call
\* next, no handler behind k is invoked and every handler before k is invoked
\* exactly once (none is re-entered).
C2_ShortCircuitOnce ==
    \A p \in Procs : \A k \in DOMAIN disp[p].cfg :
        (FollowsConfig(disp[p]) /\ StopsAt(disp[p], k)) =>
            /\ \A j \in DOMAIN disp[p].log :
                  disp[p].log[j].ev = "enter" => disp[p].log[j].pos <= k
            /\ \A j \in 1 .. k - 1 : Cardinality(EntersAt(disp[p], j)) = 1

\* C2 amended: in any dispatch the k-th activation is of the handler at position
\* k, and if the handler at position k is invoked and does not call next, no handler behind k is ever invoked and every handler before
\* k was invoked before k was; when moreover no handler before k calls next more
\* than once, every handler before k is invoked exactly once.  A dispatch through
\* [A writes "1" and continues, B writes "2" and stops, P writes "3"] that is done
\* has written exactly "12".
C2_ShortCircuit ==
    \A p \in Procs :
        /\ FollowsConfig(disp[p])
        /\ \A k \in DOMAIN disp[p].cfg :
              StopsAt(disp[p], k) =>
                  LET d     == disp[p]
                      first == CHOOSE i \in EntersAt(d, k) : \A i2 \in EntersAt(d, k) : i <= i2
                  IN /\ \A j \in DOMAIN d.log : d.log[j].ev = "enter" => d.log[j].pos <= k
                     /\ \A j \in 1 .. k - 1 : \E i \in EntersAt(d, j) : i < first
                     /\ (\A j \in 1 .. k - 1 : HandlerCalls(d.cfg[j]) <= 1)
                        => \A j \in 1 .. k - 1 : Cardinality(EntersAt(d, j)) = 1
        /\ ( /\ disp[p].pc = "done"
             /\ disp[p].cfg = <<HandlerFunc("A"), HandlerFunc("B"), Wrap(HttpHandlerFunc("P"))>> )
           => disp[p].body = <<"1", "2">>

C2_Witness ==
    \E p \in Procs :
        /\ disp[p].pc = "done"
        /\ disp[p].cfg = <<HandlerFunc("A"), HandlerFunc("B"), Wrap(HttpHandlerFunc("P"))>>
        /\ StopsAt(disp[p], 2)
        /\ disp[p].body = <<"1", "2">>

\* C3: a Use with the nil handler panics and changes neither n.handlers (the slice
\* and the arrays behind it) nor n.middleware (the head and the nodes behind it).
C3_UseNilChangesNothing ==
    [][ (call' # call /\ call'.op = "Use" /\ call'.arg = NilHandler)
        => /\ call'.result = "panic"
           /\ UNCHANGED <<arrays, mem, handlers, middleware, given>> ]_vars

\* the last call was a Use(nil) that panicked, and a dispatch has invoked exactly
\* the handlers the stack was given
C3_Witness ==
    /\ call.op = "Use" /\ call.arg = NilHandler /\ call.result = "panic"
    /\ disp[Main].pc = "done"
    /\ disp[Main].src = "stack"
    /\ Len(disp[Main].cfg) > 0
    /\ Entered(disp[Main]) = given

\* C4: what Handlers() returns is the handlers New was given followed by the
\* handlers of the successful Use, UseFunc, UseHandler and UseHandlerFunc calls in
\* call order; a slice Handlers() returned earlier still shows the same elements,
\* a prefix of that history: nothing was removed, replaced or reordered.
C4_HandlersIsHistory ==
    /\ Elems(arrays, handlers) = given
    /\ snap # NoSlice => IsPrefix(Elems(arrays, snap), given)

C4_Witness ==
    /\ snap # NoSlice
    /\ snap.len < handlers.len
    /\ snap.arr = handlers.arr
    /\ handlers.len = MaxHandlers
    /\ call.result = "ok"

\* the handlers a chain holds: those met walking from the value m along next
RECURSIVE Walk(_, _)
Walk(m, heap) ==
    IF m.next = 0 THEN <<>> ELSE <<m.handler>> \o Walk(heap[m.next], heap)

\* C5: a copy of the chain head taken before a Use still denotes the chain it
\* denoted when it was taken (no node behind it was changed), and a dispatch through
\* it invokes only the handlers the stack held at that time, position by position,
\* all of them in order when each continues once; through the copy of the chain of
\* [A] taken before Use(B) the response gets exactly "1".
C5_CapturedChainKept ==
    /\ captured # NoChain => Walk(captured, mem) = Append(capturedFor, voidHandler)
    /\ \A p \in Procs :
          disp[p].src = "captured" =>
              /\ FollowsConfig(disp[p])
              /\ (disp[p].pc = "done" /\ AllCallNextOnce(disp[p].cfg))
                 => Entered(disp[p]) = disp[p].cfg
              /\ (disp[p].pc = "done" /\ disp[p].cfg = <<HandlerFunc("A")>>)
                 => disp[p].body = <<"1">>

\* the chain of [A] was captured, a Use followed, and a later dispatch through the
\* captured chain is done
C5_Witness ==
    \E p \in Procs :
        /\ disp[p].pc = "done"
        /\ disp[p].src = "captured"
        /\ disp[p].cfg = <<HandlerFunc("A")>>
        /\ Len(disp[p].seen) > Len(disp[p].cfg)
        /\ disp[p].body = <<"1">>

\* C6: a ServeHTTP dispatch through a stack without handlers does not panic, invokes
\* no handler of a caller and writes nothing to the response.
C6_EmptyStackNoEffect ==
    \A p \in Procs :
        (disp[p].src = "stack" /\ disp[p].cfg = <<>>)
        => /\ disp[p].pc \in {"run", "done"}
           /\ Entered(disp[p]) = <<>>
           /\ disp[p].body = <<>>
           /\ \A i \in DOMAIN disp[p].log : disp[p].log[i].h = voidHandler

C6_Witness ==
    \E p \in Procs :
        /\ disp[p].pc = "done"
        /\ disp[p].src = "stack"
        /\ disp[p].cfg = <<>>
        /\ Len(disp[p].log) = 2

\* C9: in a dispatch that is done, every invocation of a handler made by Wrap is
\* followed at once by the run of the http.Handler it wraps and then by the
\* invocation of the handler at the next position (the terminal handler behind the
\* last), which is the only invocation at that position before the wrapper returns;
\* a stack of wrapped handlers alone runs each of them exactly once, in order.
C9_WrapAlwaysContinues ==
    \A p \in Procs :
        disp[p].pc = "done" =>
            LET d == disp[p]
            IN /\ \A i \in DOMAIN d.log :
                    (d.log[i].ev = "enter" /\ d.log[i].h.fn = "wrap") =>
                        /\ i + 2 <= Len(d.log)
                        /\ d.log[i + 1] = Event("plain", d.log[i].h, d.log[i].pos)
                        /\ d.log[i + 2].ev = "enter"
                        /\ d.log[i + 2].pos = d.log[i].pos + 1
                        /\ LET out == CHOOSE j \in i + 1 .. Len(d.log) :
                                        /\ d.log[j] = Event("exit", d.log[i].h, d.log[i].pos)
                                        /\ \A j2 \in i + 1 .. j - 1 :
                                              d.log[j2] # Event("exit", d.log[i].h, d.log[i].pos)
                           IN Cardinality({j \in i .. out : /\ d.log[j].ev = "enter"
                                                             /\ d.log[j].pos = d.log[i].pos + 1}) = 1
               /\ (d.cfg # <<>> /\ \A i \in DOMAIN d.cfg : d.cfg[i].fn = "wrap")
                  => /\ Entered(d) = d.cfg
                     /\ PlainRuns(d) = [i \in DOMAIN d.cfg |-> d.cfg[i].inner]

C9_Witness ==
    \E p \in Procs :
        /\ disp[p].pc = "done"
        /\ Len(disp[p].cfg) = MaxHandlers
        /\ disp[p].cfg[1].fn = "wrap"
        /\ disp[p].cfg[2].fn # "wrap"
        /\ \A i \in DOMAIN disp[p].cfg : HandlerCalls(disp[p].cfg[i]) = 1
        /\ Len(PlainRuns(disp[p])) >= 1

RECURSIVE Repeat(_, _)
Repeat(seq, n) == IF n = 0 THEN <<>> ELSE seq \o Repeat(seq, n - 1)

\* the handlers a dispatch through the chain of hs invokes when nothing else runs:
\* the first, and then the rest once for every call of next the first makes
RECURSIVE Visits(_)
Visits(hs) ==
    IF hs = <<>> THEN <<>>
    ELSE <<hs[1]>> \o Repeat(Visits(Tail(hs)), HandlerCalls(hs[1]))

\* C7: while goroutines dispatch through one stack concurrently and nothing calls
\* Use, every dispatch invokes at each position the handler configured there and,
\* when done, has invoked exactly the handlers a dispatch on its own invokes; no
\* step of a dispatch changes n.handlers, n.middleware or what they refer to.
C7_ConcurrentDispatches ==
    /\ [](\A p \in Procs :
            /\ disp[p].pc # "panic"
            /\ FollowsConfig(disp[p])
            /\ disp[p].pc = "done" => Entered(disp[p]) = Visits(disp[p].cfg))
    /\ [][UNCHANGED stackVars]_vars

\* two dispatches through a stack of MaxServing handlers are under way at once
C7_Witness ==
    \E p, q \in Procs :
        /\ p # q
        /\ disp[p].pc = "run" /\ disp[q].pc = "run"
        /\ Len(disp[p].cfg) = MaxServing
        /\ Len(disp[p].log) >= 3 /\ Len(disp[q].log) >= 3
        /\ disp[p].log # disp[q].log

\* C8 as stated: whatever the interleaving of a ServeHTTP with a Use, the dispatch
\* does not fail and runs against one chain version: some sequence of handlers the
\* stack held between its begin and now is invoked position by position.
C8_OneChainVersion ==
    \A p \in Procs :
        disp[p].src \in {"stack", "torn"} =>
            /\ disp[p].pc # "panic"
            /\ \E k \in Len(disp[p].seen) .. Len(given) :
                  FollowsConfig([disp[p] EXCEPT !.cfg = SubSeq(given, 1, k)])

\* C8 amended: under every interleaving of a ServeHTTP with a Use(h) in which the
\* dispatch copies n.middleware entirely before the Use begins to store the new
\* chain head, or entirely after the Use stored its last word, the dispatch runs
\* against one chain version, the complete old chain or the complete new one,
\* whatever the Use does meanwhile: it does not fail, invokes position by position
\* the handlers of that chain and, when done, exactly the handlers a dispatch on
\* its own invokes.
C8_CopiedChainVersion ==
    \A p \in Procs :
        disp[p].src = "stack" =>
            /\ disp[p].pc # "panic"
            /\ disp[p].cfg \in {given} \cup (IF use.pc = "idle" THEN {} ELSE {use.old})
            /\ FollowsConfig(disp[p])
            /\ disp[p].pc = "done" => Entered(disp[p]) = Visits(disp[p].cfg)

\* a dispatch through the old chain is under way while Use has stored one word of
\* the new chain head
C8_Witness ==
    \E p \in Procs :
        /\ disp[p].pc = "run"
        /\ disp[p].src = "stack"
        /\ disp[p].cfg # <<>>
        /\ Len(disp[p].stack) = 1
        /\ use.pc = "write"
        /\ use.todo # Words
        /\ disp[p].cfg = use.old

\* C10 as stated: a store to an element of the slice Handlers() returned does not
\* affect the stack: Handlers() still returns the handlers New and Use were given,
\* and every dispatch invokes position by position the handlers New and Use had
\* been given when it began.
C10_HandlersIsSnapshot ==
    /\ Elems(arrays, handlers) = given
    /\ \A p \in Procs : disp[p].src = "stack" => FollowsConfig(disp[p])

\* the log indices at which a dispatch recorded the panic of a handler
Panics(d) == {i \in DOMAIN d.log : d.log[i].ev = "panic"}

\* C11: a panic of a handler ends its dispatch at once and reaches the caller of
\* ServeHTTP: every activation is unwound and nothing is invoked after the panic;
\* the step changes neither n.handlers, n.middleware or what they refer to, nor
\* any other dispatch, and every dispatch without a panic (begun before, running
\* meanwhile or begun later) invokes position by position the handlers of the
\* stack and, when done, exactly those a dispatch on its own invokes.
C11_PanicPropagates ==
    /\ [](\A p \in Procs :
            /\ Panics(disp[p]) # {} =>
                  /\ disp[p].pc = "panic"
                  /\ disp[p].stack = <<>>
                  /\ Panics(disp[p]) = {Len(disp[p].log)}
            /\ disp[p].pc = "panic" => Panics(disp[p]) # {}
            /\ disp[p].src = "stack" =>
                  /\ disp[p].cfg = given
                  /\ FollowsConfig(disp[p])
                  /\ disp[p].pc = "done" => Entered(disp[p]) = Visits(disp[p].cfg))
    /\ [][\A p \in Procs :
            (disp[p].pc = "run" /\ disp'[p].pc = "panic") =>
                /\ UNCHANGED stackVars
                /\ \A q \in Procs \ {p} : disp'[q] = disp[q]]_vars

\* one dispatch ended with the panic of the second handler, and another dispatch
\* through the same stack is done and invoked both handlers
C11_Witness ==
    \E p, q \in Procs :
        /\ disp[p].pc = "panic"
        /\ Len(Entered(disp[p])) = MaxServing
        /\ disp[p].log[Len(disp[p].log)].pos = MaxServing
        /\ disp[q].pc = "done"
        /\ disp[q].cfg = disp[p].cfg
        /\ Entered(disp[q]) = disp[q].cfg

\* C12: the stack Classic() returns holds exactly three handlers, recovery, the
\* logger and the static file server in this order (in n.handlers, in what
\* Handlers() returns and in the chain), and every dispatch invokes recovery
\* first, the logger second and the file server third, each inside the call of
\* next of the one before.
C12_ClassicOrder ==
    LET three == <<NewRecovery, NewLogger, NewStatic("public")>>
    IN /\ Elems(arrays, handlers) = three
       /\ snap # NoSlice => Elems(arrays, snap) = three
       /\ Walk(middleware, mem) = Append(three, voidHandler)
       /\ \A p \in Procs :
             disp[p].src = "stack" =>
                 /\ IsPrefix(Entered(disp[p]), three)
                 /\ \A i \in DOMAIN Entered(disp[p]) :
                       \E j \in DOMAIN disp[p].log :
                           disp[p].log[j] = Event("enter", three[i], i)
                 /\ disp[p].pc = "done" => Entered(disp[p]) = three

C12_Witness ==
    /\ snap # NoSlice
    /\ Len(Elems(arrays, snap)) = Len(<<NewRecovery, NewLogger, NewStatic("public")>>)
    /\ \E p \in Procs :
          /\ disp[p].pc = "done"
          /\ Entered(disp[p]) = <<NewRecovery, NewLogger, NewStatic("public")>>

\* the node reached from the value m after i steps along next
RECURSIVE NodeAt(_, _, _)
NodeAt(m, heap, i) == IF i = 0 THEN m ELSE NodeAt(heap[m.next], heap, i - 1)

\* C13: after New and after every configuration call the chain is the one build
\* makes of the current n.handlers [h0..hn-1]: the node i steps from the head holds
\* handlers[i] for every i < n, the node n steps from the head is the terminal
\* node, whose next is the empty node, and nothing else is on the chain.
C13_ChainIsBuildOfHandlers ==
    LET hs == Elems(arrays, handlers)
    IN /\ \A i \in 1 .. Len(hs) : NodeAt(middleware, mem, i - 1).handler = hs[i]
       /\ NodeAt(middleware, mem, Len(hs)).handler = voidHandler
       /\ NodeAt(middleware, mem, Len(hs) + 1) = ZeroMiddleware
       /\ Walk(middleware, mem) = Append(hs, voidHandler)

\* the stack was given MaxHandlers handlers, the last by a call that had append
\* move n.handlers to a new array
C13_Witness ==
    /\ handlers.len = MaxHandlers
    /\ handlers.arr > 1
    /\ call.op = "Use" /\ call.result = "ok"
    /\ Len(Walk(middleware, mem)) = MaxHandlers + 1

\* the number of activations of a dispatch that are open after its first i events
Open(d, i) ==
    Cardinality({j \in 1 .. i : d.log[j].ev = "enter"})
    - Cardinality({j \in 1 .. i : d.log[j].ev = "exit"})

\* the activation entered at log index i has returned by log index j
Closed(d, i, j) ==
    \E x \in i + 1 .. j :
        /\ d.log[x] = Event("exit", d.log[i].h, d.log[i].pos)
        /\ Open(d, x) = d.log[i].pos - 1

\* C14: the invocations of a dispatch are synchronous and properly nested.  An
\* invocation at a position k > 1 begins while an invocation at position k - 1 is
\* open (inside its call of next) and no deeper one is; a handler returns only
\* when every invocation made after it was entered has returned; a dispatch that
\* is done began with the invocation of the first handler and ended with its
\* return, so the first handler wrapped every other invocation.
C14_ProperlyNested ==
    \A p \in Procs :
        LET d == disp[p]
        IN /\ \A i \in DOMAIN d.log :
                 /\ d.log[i].ev = "enter" =>
                       /\ d.log[i].pos = Open(d, i - 1) + 1
                       /\ d.log[i].pos > 1 =>
                             \E j \in 1 .. i - 1 :
                                 /\ d.log[j].ev = "enter"
                                 /\ d.log[j].pos = d.log[i].pos - 1
                                 /\ ~Closed(d, j, i)
                 /\ d.log[i].ev = "exit" =>
                       /\ d.log[i].pos = Open(d, i - 1)
                       /\ \A j \in 1 .. i - 1 :
                             (d.log[j].ev = "enter" /\ d.log[j].pos > d.log[i].pos)
                             => Closed(d, j, i - 1)
           /\ d.pc = "run" => Open(d, Len(d.log)) = Len(d.stack)
           /\ d.pc = "done" =>
                 /\ Open(d, Len(d.log)) = 0
                 /\ d.log[1].ev = "enter" /\ d.log[1].pos = 1
                 /\ d.log[Len(d.log)] = Event("exit", d.log[1].h, 1)
                 /\ \A i \in 2 .. Len(d.log) - 1 : d.log[i].pos > 1 \/ d.log[i].ev = "plain"

\* a dispatch is done in which the first handler called next twice and every
\* handler behind it and the terminal handler ran inside each of the two calls
C14_Witness ==
    \E p \in Procs :
        /\ disp[p].pc = "done"
        /\ Len(disp[p].cfg) = MaxHandlers
        /\ HandlerCalls(disp[p].cfg[1]) = 2
        /\ Cardinality(EntersAt(disp[p], MaxHandlers + 1)) = 2

\* C15 as stated: a call of the continuation at the terminal node or past it is a
\* no-op.  A dispatch invokes behind the last configured handler nothing but the
\* terminal handler, and a call of the continuation the terminal node passes on
\* (the node behind the terminal node) invokes no handler, writes nothing and
\* does not fail.
C15_TerminalAbsorbs ==
    \A p \in Procs :
        /\ disp[p].src = "stack" =>
              /\ FollowsConfig(disp[p])
              /\ disp[p].pc # "panic"
        /\ disp[p].src = "past" =>
              /\ disp[p].pc # "panic"
              /\ Entered(disp[p]) = <<>>
              /\ disp[p].body = <<>>

\* C16 as stated: in every dispatch through n.ServeHTTP every handler that runs,
\* the terminal handler included, receives the wrapped response and the request
\* n.ServeHTTP passed to the head of the chain.
C16_SameArguments ==
    \A p \in Procs :
        disp[p].src = "stack" =>
            \A i \in DOMAIN disp[p].recv :
                /\ disp[p].recv[i].rw = NewResponseWriter(RawWriter)
                /\ disp[p].recv[i].r = Request

\* the positions of the invocations a dispatch made behind position k, in order
EnteredBehind(d, k) ==
    LET Behind(e) == e.ev = "enter" /\ e.pos > k
        es == SelectSeq(d.log, Behind)
    IN [i \in DOMAIN es |-> es[i].pos]

\* every handler behind position k of hs calls next exactly once
RestCallNextOnce(hs, k) == \A j \in k + 1 .. Len(hs) : HandlerCalls(hs[j]) = 1

\* C17: no dispatch fails over a repeated call of next, and in a dispatch that is
\* done, if the handler at position k calls next m times (its body's calls, for
\* each time it was invoked: m is the body's count when no handler before k calls
\* next more than once) and every handler behind k calls next once, then every
\* handler behind k and the terminal handler were invoked exactly m times; the
\* invocations behind k come in passes k+1, ..., n, terminal, and a pass is
\* complete before the next begins.
C17_RepeatedContinuation ==
    \A p \in Procs :
        /\ disp[p].src \in {"stack", "captured"} => disp[p].pc # "panic"
        /\ \A k \in DOMAIN disp[p].cfg :
              ( /\ disp[p].pc = "done"
                /\ FollowsConfig(disp[p])
                /\ RestCallNextOnce(disp[p].cfg, k) )
              => LET d      == disp[p]
                     n      == Len(d.cfg)
                     passes == HandlerCalls(d.cfg[k]) * Cardinality(EntersAt(d, k))
                 IN /\ \A j \in k + 1 .. n + 1 : Cardinality(EntersAt(d, j)) = passes
                    /\ (\A j \in 1 .. k - 1 : HandlerCalls(d.cfg[j]) = 1)
                       => passes = HandlerCalls(d.cfg[k])
                    /\ EnteredBehind(d, k) = Repeat([i \in 1 .. n + 1 - k |-> k + i], passes)
                    /\ \A i, j \in EntersAt(d, k + 1) : i < j => Closed(d, i, j)

\* a dispatch through MaxHandlers handlers is done whose first handler called next
\* twice and whose other handlers call it once: two passes over the rest
C17_Witness ==
    \E p \in Procs :
        /\ disp[p].pc = "done"
        /\ Len(disp[p].cfg) = MaxHandlers
        /\ HandlerCalls(disp[p].cfg[1]) = 2
        /\ RestCallNextOnce(disp[p].cfg, 1)
        /\ EnteredBehind(disp[p], 1) = Repeat([i \in 1 .. MaxHandlers |-> 1 + i], 2)

\* C18 as stated: whatever New, Use, UseFunc, UseHandler and UseHandlerFunc were
\* given, no element of n.handlers and no node of the chain before the terminal
\* node holds a handler that is nil or cannot run, and no dispatch fails.
C18_NoNilHandler ==
    /\ \A i \in DOMAIN Elems(arrays, handlers) : ~Unusable(Elems(arrays, handlers)[i])
    /\ \A i \in 1 .. Len(Walk(middleware, mem)) - 1 : ~Unusable(Walk(middleware, mem)[i])
    /\ \A p \in Procs : disp[p].src = "stack" => disp[p].pc # "panic"

\* C19 as stated: two stacks made by New of one slice of the caller are
\* independent of each other and of the caller's slice.  Whatever Use calls the
\* other stack gets and whatever the caller stores to its slice afterwards, what
\* Handlers() returns for a stack is the handlers New and Use gave that stack, and
\* every dispatch invokes position by position the handlers the stack had been
\* given when the dispatch began.
C19_StacksIndependent ==
    /\ Elems(arrays, handlers) = given
    /\ twin # NoStack => Elems(arrays, twin.handlers) = twin.given
    /\ \A p \in Procs : disp[p].src = "stack" => FollowsConfig(disp[p])

\* no handler of hs calls next more than once
AllCallNextAtMostOnce(hs) == \A i \in DOMAIN hs : HandlerCalls(hs[i]) <= 1

\* C20: the chain is finite and acyclic: every pointer of a node leads to a node
\* made before it, and the terminal node is n steps from the head.  A dispatch
\* through n handlers none of which calls next more than once never holds more
\* than n + 1 activations and makes at most n invocations of handlers of the
\* callers and one of the terminal handler; every step of a dispatch adds an event
\* to its record, which stays within 3(n + 1) events; and as the handlers return,
\* every dispatch that runs comes to its end.
C20_DispatchTerminates ==
    /\ []( /\ \A a \in DOMAIN mem : mem[a].next < a
           /\ middleware.next \in 1 .. Len(mem)
           /\ Len(Walk(middleware, mem)) = Len(given) + 1
           /\ \A p \in Procs :
                 (disp[p].src = "stack" /\ AllCallNextAtMostOnce(disp[p].cfg)) =>
                     /\ disp[p].pc # "panic"
                     /\ Len(disp[p].stack) <= Len(disp[p].cfg) + 1
                     /\ Len(Entered(disp[p])) <= Len(disp[p].cfg)
                     /\ Cardinality(EntersAt(disp[p], Len(disp[p].cfg) + 1)) <= 1
                     /\ Len(disp[p].log) <= 3 * (Len(disp[p].cfg) + 1) )
    /\ [][\A p \in Procs :
            (disp[p].pc = "run" /\ disp'[p] # disp[p])
            => Len(disp'[p].log) > Len(disp[p].log)]_vars
    /\ \A p \in Procs : (disp[p].pc = "run") ~> (disp[p].pc = "done")

\* a dispatch through MaxHandlers handlers that all call next once is done: it made
\* MaxHandlers invocations of handlers of the callers and one of the terminal handler
C20_Witness ==
    \E p \in Procs :
        /\ disp[p].pc = "done"
        /\ Len(disp[p].cfg) = MaxHandlers
        /\ AllCallNextOnce(disp[p].cfg)
        /\ Len(Entered(disp[p])) = MaxHandlers
        /\ Cardinality(EntersAt(disp[p], MaxHandlers + 1)) = 1

====
